---- MODULE Spec2Model ----
(***************************************************************************)
(* The session orchestration layer of the conversational assessment client *)
(* (frontend/src/hooks/useChatSession.ts) together with the page that      *)
(* drives it (frontend/src/app/page.tsx, components/chat ChatInput) and    *)
(* the remote assessment service it talks to.                              *)
(***************************************************************************)
EXTENDS Integers, Sequences, FiniteSets, Bags, TLC

\* ------------------------------------------------------------------------
\* Bounds of the model
\* ------------------------------------------------------------------------
\* operations that contact the service (start, message, finish, upgrade, a run
\* of restoration) and re-entries of the page, in one process lifetime
MaxCalls == 4
\* the fetch / apply counters of restoration saturate here
CountCap == 2

\* ------------------------------------------------------------------------
\* Values
\* ------------------------------------------------------------------------
Null == "null"
NoSession == 0
Depths == {"shallow", "standard", "deep"}
\* the tiers the user picks on the landing page
StartDepths == {"shallow", "deep"}
\* the prior session and one per start call
SessionIds == 1..(MaxCalls + 1)
\* what the user can type; Trim is String.prototype.trim on these
Inputs == {"a "}
Contents == {"a", "b"}
\* HTTP statuses of a failing message call (0: no response at all)
FailStatuses == {404, 503}
COLOR_TYPES == {"Purple", "Green", "Blue", "Yellow"}

Min(a, b) == IF a < b THEN a ELSE b

Trim(s) == IF s = "a " THEN "a" ELSE s

\* Math.round(num / den) for num >= 0, den > 0 (halves round up)
MathRound(num, den) == (2 * num + den) \div (2 * den)

DEPTH_MAX_ROUNDS(depth) ==
    CASE depth = "shallow" -> 5
      [] depth = "standard" -> 15
      [] depth = "deep" -> 30

calculateProgress(currentRound, depth) ==
    IF depth = Null THEN 0
    ELSE Min(100, MathRound(currentRound * 100, DEPTH_MAX_ROUNDS(depth)))

\* ------------------------------------------------------------------------
\* Messages
\* ------------------------------------------------------------------------
NoMeta == <<>>
UserMessage(c) == [role |-> "user", content |-> c, meta |-> NoMeta]
AssistantMessage(c, pred, conf, prog, fin) ==
    [role |-> "assistant", content |-> c, meta |-> <<pred, conf, prog, fin>>]

RECURSIVE UserCount(_, _)
UserCount(msgs, c) ==
    IF msgs = <<>> THEN 0
    ELSE (IF Head(msgs).role = "user" /\ Head(msgs).content = c THEN 1 ELSE 0)
         + UserCount(Tail(msgs), c)

\* state.messages.some(m => m.role === "user" && m.content === c)
messageExists(msgs, c) ==
    \E i \in 1..Len(msgs) : msgs[i].role = "user" /\ msgs[i].content = c

\* ------------------------------------------------------------------------
\* initialState of the hook
\* ------------------------------------------------------------------------
NoResult == <<>>

initialState ==
    [ sessionId         |-> NoSession,
      depth             |-> Null,
      isStarted         |-> FALSE,
      isRestoring       |-> FALSE,
      messages          |-> <<>>,
      input             |-> "",
      isLoading         |-> FALSE,
      isTyping          |-> FALSE,
      progress          |-> 0,
      currentPrediction |-> "Unknown",
      confidenceScore   |-> 0,
      currentRound      |-> 0,
      maxRounds         |-> 15,
      developmentLevel  |-> Null,
      isFinished        |-> FALSE,
      isAtMaxRounds     |-> FALSE,
      isFinishing       |-> FALSE,
      resultData        |-> NoResult,
      error             |-> Null,
      lastFailedMessage |-> Null,
      retryCount        |-> 0 ]

\* ------------------------------------------------------------------------
\* The remote assessment service: one record per session
\* ------------------------------------------------------------------------
NoRecord == [depth |-> Null, round |-> 0, complete |-> FALSE]

SrvExists(srv, sid) == sid \in SessionIds /\ srv[sid].depth # Null

SrvPrediction(rec) ==
    IF rec.round = 0 THEN "Unknown"
    ELSE IF rec.depth = "shallow" THEN "Purple" ELSE "INTJ"

SrvConfidence(rec) == IF rec.round = 0 THEN 0 ELSE Min(100, 67 + rec.round)

SrvDevelopmentLevel(rec) ==
    IF rec.depth = "deep" /\ rec.round > 0 THEN "Medium" ELSE Null

SrvCognitiveStack(rec) ==
    IF rec.depth = "deep" THEN <<"Ni", "Te", "Fi", "Se">> ELSE <<>>

NextDepth(depth) == IF depth = "shallow" THEN "standard" ELSE "deep"

\* the response record every remote operation answers with; an operation
\* fills the fields it returns
NoResp ==
    [ session_id |-> NoSession, depth |-> Null, is_complete |-> FALSE,
      is_finished |-> FALSE, is_at_max_rounds |-> FALSE,
      current_prediction |-> Null, confidence_score |-> 0,
      current_round |-> 0, max_rounds |-> 0, development_level |-> Null,
      new_depth |-> Null, messages |-> <<>>, result |-> NoResult ]

\* start(depth): a fresh session id
SrvFreeIds(srv) == {s \in SessionIds : srv[s].depth = Null}
SrvNewId(srv) == CHOOSE s \in SrvFreeIds(srv) : \A t \in SrvFreeIds(srv) : s <= t
SrvCanStart(srv) == SrvFreeIds(srv) # {}
SrvAfterStart(srv, depth) ==
    [srv EXCEPT ![SrvNewId(srv)] = [depth |-> depth, round |-> 0, complete |-> FALSE]]
SrvStartResp(srv, depth) ==
    [NoResp EXCEPT !.session_id = SrvNewId(srv), !.depth = depth]

\* message(sessionId, content): one more round, up to the tier's limit
SrvCanMessage(srv, sid) ==
    SrvExists(srv, sid) /\ srv[sid].round < DEPTH_MAX_ROUNDS(srv[sid].depth)
SrvAfterMessage(srv, sid) ==
    [srv EXCEPT ![sid].round = @ + 1, ![sid].complete = FALSE]
SrvMessageResp(srv, sid) ==
    LET rec == SrvAfterMessage(srv, sid)[sid]
        max == DEPTH_MAX_ROUNDS(rec.depth)
    IN [NoResp EXCEPT !.session_id = sid,
                      !.is_finished = (rec.round >= max),
                      !.is_at_max_rounds = (rec.round >= max),
                      !.current_prediction = SrvPrediction(rec),
                      !.confidence_score = SrvConfidence(rec),
                      !.current_round = rec.round,
                      !.max_rounds = max,
                      !.development_level = SrvDevelopmentLevel(rec)]

\* finish(sessionId): the terminal result of the session
SrvCanFinish(srv, sid) == SrvExists(srv, sid) /\ srv[sid].round > 0
SrvAfterFinish(srv, sid) == [srv EXCEPT ![sid].complete = TRUE]
SrvResult(rec) ==
    [ mbti_type         |-> SrvPrediction(rec),
      confidence_score  |-> SrvConfidence(rec),
      cognitive_stack   |-> SrvCognitiveStack(rec),
      development_level |-> SrvDevelopmentLevel(rec),
      total_rounds      |-> rec.round ]
SrvFinishResp(srv, sid) ==
    [NoResp EXCEPT !.session_id = sid, !.result = <<SrvResult(srv[sid])>>]

\* upgrade(sessionId): the service moves the session one tier deeper
SrvCanUpgrade(srv, sid) == SrvExists(srv, sid) /\ srv[sid].depth # "deep"
SrvAfterUpgrade(srv, sid) ==
    [srv EXCEPT ![sid].depth = NextDepth(@), ![sid].complete = FALSE]
SrvUpgradeResp(srv, sid) ==
    [NoResp EXCEPT !.session_id = sid, !.new_depth = NextDepth(srv[sid].depth)]

\* status(sessionId)
SrvStatusResp(srv, sid) ==
    LET rec == srv[sid]
    IN [NoResp EXCEPT !.session_id = sid,
                      !.depth = rec.depth,
                      !.is_complete = rec.complete,
                      !.current_round = rec.round,
                      !.current_prediction = SrvPrediction(rec),
                      !.confidence_score = SrvConfidence(rec),
                      !.development_level = SrvDevelopmentLevel(rec)]

\* history(sessionId): the greeting, then one user / model pair per round
\* (the users of earlier process lifetimes wrote "a" and "b" in turn)
RECURSIVE SrvRounds(_, _)
SrvRounds(rec, n) ==
    IF n = 0 THEN <<>>
    ELSE LET at == [rec EXCEPT !.round = n]
         IN SrvRounds(rec, n - 1) \o
            << [role |-> "user", content |-> IF n % 2 = 1 THEN "a" ELSE "b",
                ai_metadata |-> NoMeta],
               [role |-> "model", content |-> "reply",
                ai_metadata |-> <<SrvPrediction(at), SrvConfidence(at),
                                  calculateProgress(n, rec.depth), "false">>] >>
SrvHistory(rec) ==
    << [role |-> "model", content |-> "greeting", ai_metadata |-> NoMeta] >>
    \o SrvRounds(rec, rec.round)
SrvHistoryResp(srv, sid) ==
    [NoResp EXCEPT !.session_id = sid, !.messages = SrvHistory(srv[sid])]

\* the states a session left behind by an earlier process lifetime can be in
PriorRecords ==
    { [depth |-> "shallow", round |-> 4, complete |-> FALSE],
      [depth |-> "shallow", round |-> 5, complete |-> TRUE],
      [depth |-> "standard", round |-> 15, complete |-> TRUE] }


\* ------------------------------------------------------------------------
\* State
\* ------------------------------------------------------------------------
VARIABLES
    state,                    \* ChatSessionState of the mounted hook
    restorationAttemptedRef,  \* useRef(false)
    isRestoringRef,           \* useRef(false)
    restore,                  \* restoreSession(): where it is suspended, its locals
    storage,                  \* localStorage["mbti_session_id"]
    server,                   \* the remote service's session records
    net,                      \* bag of outstanding remote calls of the actions
    pendingUpgrade,           \* page state: the upgrade asked for by the URL
    upgradeTriggeredRef,      \* page ref
    calls,                    \* remote calls of the user's actions and re-entries so far
    counts                    \* status / history fetches issued, restored states applied

vars == << state, restorationAttemptedRef, isRestoringRef, restore, storage, server,
           net, pendingUpgrade, upgradeTriggeredRef, calls, counts >>

RestoreIdle ==
    [pc |-> "idle", sid |-> NoSession, ok |-> FALSE, resp |-> NoResp,
     sessionStatus |-> NoResp, chatHistory |-> <<>>]

NoCounts ==
    [statusP |-> 0, historyP |-> 0, appliedP |-> 0,
     statusM |-> 0, historyM |-> 0, appliedM |-> 0]

Bump(n) == Min(CountCap, n + 1)

Init ==
    /\ state = initialState
    /\ restorationAttemptedRef = FALSE
    /\ isRestoringRef = FALSE
    /\ restore = RestoreIdle
    /\ \/ /\ server = [s \in SessionIds |-> NoRecord]
          /\ storage = NoSession
       \/ /\ \E prior \in PriorRecords :
                server = [s \in SessionIds |-> IF s = 1 THEN prior ELSE NoRecord]
          /\ storage = 1
    /\ net = EmptyBag
    /\ pendingUpgrade \in (IF storage = NoSession THEN {Null}
                           ELSE {Null, "standard", "deep"})
    /\ upgradeTriggeredRef = FALSE
    /\ calls = 0
    /\ counts = NoCounts

\* ------------------------------------------------------------------------
\* Outstanding remote calls
\* ------------------------------------------------------------------------
UpgradeKinds == {"upgradeToStandard", "upgradeToDeep"}

\* a call carries what its closure captured when the action was invoked and
\* the answer the service gave to it
Call(kind, sid, content, ok, status, resp) ==
    [ kind |-> kind, sid |-> sid, content |-> content,
      depth |-> IF kind = "message" THEN state.depth ELSE Null,
      currentPrediction |-> IF kind \in UpgradeKinds THEN state.currentPrediction ELSE Null,
      confidenceScore |-> IF kind \in UpgradeKinds THEN state.confidenceScore ELSE 0,
      currentRound |-> IF kind \in UpgradeKinds THEN state.currentRound ELSE 0,
      ok |-> ok, status |-> status, resp |-> resp ]

Outstanding(kinds) == {r \in BagToSet(net) : r.kind \in kinds}

CanIssue == calls < MaxCalls
Issue(r) == net' = net (+) SetToBag({r}) /\ calls' = calls + 1
Settle(r) == net' = net (-) SetToBag({r})

\* ------------------------------------------------------------------------
\* What the page renders (page.tsx)
\* ------------------------------------------------------------------------
View ==
    IF state.isRestoring THEN "restoring"
    ELSE IF ~state.isStarted THEN "landing"
    ELSE IF state.isFinished /\ state.resultData # NoResult THEN "result"
    ELSE "chat"

\* ChatInput: disabled={state.isFinished || state.isAtMaxRounds}
ChatInputDisabled == state.isFinished \/ state.isAtMaxRounds

\* ResultView: which upgrade buttons are shown
isShallowMode == state.resultData # NoResult /\ state.resultData[1].mbti_type \in COLOR_TYPES
currentDepth == IF state.depth = Null THEN "standard" ELSE state.depth
isStandardMode == currentDepth = "standard" /\ ~isShallowMode

\* ------------------------------------------------------------------------
\* startSession
\* ------------------------------------------------------------------------
startSession(depth) ==
    /\ CanIssue
    /\ state' = [state EXCEPT !.isLoading = TRUE]
    /\ \/ /\ SrvCanStart(server)
          /\ server' = SrvAfterStart(server, depth)
          /\ Issue([Call("start", NoSession, Null, TRUE, 0, SrvStartResp(server, depth))
                        EXCEPT !.depth = depth])
       \/ /\ UNCHANGED server
          /\ Issue([Call("start", NoSession, Null, FALSE, 0, NoResp) EXCEPT !.depth = depth])
    /\ UNCHANGED << restorationAttemptedRef, isRestoringRef, restore, storage,
                    pendingUpgrade, upgradeTriggeredRef, counts >>

greetingMessage == AssistantMessage("greeting", "Unknown", 0, 0, "false")

startSessionSucceededNotSaving(r) ==
    /\ state' = [state EXCEPT !.sessionId = r.resp.session_id,
                              !.depth = r.depth,
                              !.isStarted = TRUE,
                              !.isLoading = FALSE,
                              !.messages = <<greetingMessage>>]
    /\ UNCHANGED storage

startSessionSucceeded(r) ==
    /\ state' = [state EXCEPT !.sessionId = r.resp.session_id,
                              !.depth = r.depth,
                              !.isStarted = TRUE,
                              !.isLoading = FALSE,
                              !.messages = <<greetingMessage>>]
    /\ storage' = r.resp.session_id

startSessionFailedPartial(r) ==
    /\ state' = [state EXCEPT !.isLoading = FALSE, !.isStarted = TRUE, !.depth = r.depth]
    /\ UNCHANGED storage

startSessionFailedClearingStorage(r) ==
    /\ state' = [state EXCEPT !.isLoading = FALSE]
    /\ storage' = NoSession

startSessionFailed(r) ==
    /\ state' = [state EXCEPT !.isLoading = FALSE]
    /\ UNCHANGED storage

\* how the promise of an action settles once its remote call has returned:
\* the catch block of startSession ends with "throw err", the catch blocks of
\* the other actions end normally
promiseOutcome(kind, ok) ==
    IF kind = "start" /\ ~ok THEN "rejected" ELSE "resolved"

StartReply ==
    \E r \in Outstanding({"start"}) :
        /\ Settle(r)
        /\ IF r.ok THEN startSessionSucceeded(r) ELSE startSessionFailed(r)
        /\ UNCHANGED << restorationAttemptedRef, isRestoringRef, restore, server,
                        pendingUpgrade, upgradeTriggeredRef, calls, counts >>

\* DepthSelector: disabled={isLoading}
HandleDepthSelect ==
    /\ View = "landing"
    /\ ~state.isLoading
    /\ \E depth \in StartDepths : startSession(depth)

\* FeatureDemo onStartTest: handleDepthSelect("shallow")
FeatureDemoStartTest ==
    /\ View = "landing"
    /\ startSession("shallow")

\* ------------------------------------------------------------------------
\* sendMessage / retryLastMessage
\* ------------------------------------------------------------------------
sendMessageError(status) ==
    CASE status = 429 -> "rate-limited"
      [] status = 503 -> "service-unavailable"
      [] status = 500 -> "server-error"
      [] status = 404 -> "message-404"
      [] OTHER -> "message-0"

appendUserMessageAlways(msgs, c) == Append(msgs, UserMessage(c))

appendUserMessage(msgs, c) ==
    IF messageExists(msgs, c) THEN msgs ELSE Append(msgs, UserMessage(c))

sendMessageSucceededKeepingResult(r) ==
    LET response == r.resp
        calculatedProgress == calculateProgress(response.current_round, r.depth)
        assistantMessage ==
            AssistantMessage("reply", response.current_prediction,
                             response.confidence_score, calculatedProgress,
                             IF response.is_finished THEN "true" ELSE "false")
    IN state' = [state EXCEPT
                   !.messages = Append(@, assistantMessage),
                   !.isLoading = FALSE,
                   !.isTyping = FALSE,
                   !.progress = calculatedProgress,
                   !.currentPrediction = response.current_prediction,
                   !.confidenceScore = response.confidence_score,
                   !.currentRound = response.current_round,
                   !.maxRounds = response.max_rounds,
                   !.developmentLevel =
                       IF response.development_level # Null
                       THEN response.development_level ELSE @,
                   !.isFinished = response.is_finished,
                   !.isAtMaxRounds = response.is_at_max_rounds,
                   !.error = Null,
                   !.lastFailedMessage = Null,
                   !.retryCount = 0]


sendMessage(content) ==
    LET messageContent == IF content # Null THEN content ELSE Trim(state.input)
    IN /\ messageContent # ""
       /\ state.sessionId # NoSession
       /\ CanIssue
       /\ state' = [state EXCEPT !.error = Null,
                                 !.lastFailedMessage = Null,
                                 !.messages = appendUserMessage(@, messageContent),
                                 !.input = "",
                                 !.isLoading = TRUE,
                                 !.isTyping = TRUE]
       /\ \/ /\ SrvCanMessage(server, state.sessionId)
             /\ server' = SrvAfterMessage(server, state.sessionId)
             /\ Issue(Call("message", state.sessionId, messageContent, TRUE, 0,
                           SrvMessageResp(server, state.sessionId)))
          \/ /\ UNCHANGED server
             /\ \E status \in FailStatuses :
                   Issue(Call("message", state.sessionId, messageContent, FALSE,
                              status, NoResp))
       /\ UNCHANGED << restorationAttemptedRef, isRestoringRef, restore, storage,
                       pendingUpgrade, upgradeTriggeredRef, counts >>

sendMessageSucceeded(r) ==
    LET response == r.resp
        calculatedProgress == calculateProgress(response.current_round, r.depth)
        assistantMessage ==
            AssistantMessage("reply", response.current_prediction,
                             response.confidence_score, calculatedProgress,
                             IF response.is_finished THEN "true" ELSE "false")
    IN state' = [state EXCEPT
                   !.messages = Append(@, assistantMessage),
                   !.isLoading = FALSE,
                   !.isTyping = FALSE,
                   !.progress = calculatedProgress,
                   !.currentPrediction = response.current_prediction,
                   !.confidenceScore = response.confidence_score,
                   !.currentRound = response.current_round,
                   !.maxRounds = response.max_rounds,
                   !.developmentLevel =
                       IF response.development_level # Null
                       THEN response.development_level ELSE @,
                   !.isFinished = response.is_finished,
                   !.isAtMaxRounds = response.is_at_max_rounds,
                   !.resultData = NoResult,
                   !.error = Null,
                   !.lastFailedMessage = Null,
                   !.retryCount = 0]

sendMessageFailedIfCurrent(r) ==
    state' = IF r.sid # state.sessionId THEN state
             ELSE [state EXCEPT !.isLoading = FALSE,
                                !.isTyping = FALSE,
                                !.error = sendMessageError(r.status),
                                !.lastFailedMessage = r.content,
                                !.retryCount = @ + 1]

sendMessageFailedRollingBack(r) ==
    state' = [state EXCEPT !.isLoading = FALSE,
                           !.isTyping = FALSE,
                           !.messages = SubSeq(@, 1, Len(@) - 1),
                           !.error = sendMessageError(r.status),
                           !.lastFailedMessage = r.content,
                           !.retryCount = @ + 1]

sendMessageFailed(r) ==
    state' = [state EXCEPT !.isLoading = FALSE,
                           !.isTyping = FALSE,
                           !.error = sendMessageError(r.status),
                           !.lastFailedMessage = r.content,
                           !.retryCount = @ + 1]

MessageReply ==
    \E r \in Outstanding({"message"}) :
        /\ Settle(r)
        /\ IF r.ok THEN sendMessageSucceeded(r) ELSE sendMessageFailed(r)
        /\ UNCHANGED << restorationAttemptedRef, isRestoringRef, restore, storage,
                        server, pendingUpgrade, upgradeTriggeredRef, calls, counts >>

\* ChatInput textarea: disabled={disabled || isLoading}
SetInput ==
    /\ View = "chat"
    /\ ~(ChatInputDisabled \/ state.isLoading)
    /\ \E input \in Inputs : state' = [state EXCEPT !.input = input]
    /\ UNCHANGED << restorationAttemptedRef, isRestoringRef, restore, storage, server,
                    net, pendingUpgrade, upgradeTriggeredRef, calls, counts >>

\* ChatInput.handleSubmit: value.trim() && !isLoading && !disabled, then onSend()
HandleSubmit ==
    /\ View = "chat"
    /\ Trim(state.input) # ""
    /\ ~state.isLoading
    /\ ~ChatInputDisabled
    /\ sendMessage(Null)

retryLastMessage ==
    /\ state.lastFailedMessage # Null
    /\ sendMessage(state.lastFailedMessage)

\* the retry button of the error display: disabled={state.isLoading}
RetryClick ==
    /\ View = "chat"
    /\ state.error # Null
    /\ ~state.isTyping
    /\ ~state.isLoading
    /\ retryLastMessage


\* ------------------------------------------------------------------------
\* finishSession
\* ------------------------------------------------------------------------
finishSession ==
    /\ state.sessionId # NoSession
    /\ CanIssue
    /\ state' = [state EXCEPT !.isFinishing = TRUE, !.isLoading = TRUE]
    /\ \/ /\ SrvCanFinish(server, state.sessionId)
          /\ server' = SrvAfterFinish(server, state.sessionId)
          /\ Issue(Call("finish", state.sessionId, Null, TRUE, 0,
                        SrvFinishResp(server, state.sessionId)))
       \/ /\ UNCHANGED server
          /\ Issue(Call("finish", state.sessionId, Null, FALSE, 0, NoResp))
    /\ UNCHANGED << restorationAttemptedRef, isRestoringRef, restore, storage,
                    pendingUpgrade, upgradeTriggeredRef, counts >>

finishSessionSucceeded(r) ==
    state' = [state EXCEPT !.isLoading = FALSE,
                           !.isFinishing = FALSE,
                           !.isFinished = TRUE,
                           !.resultData = r.resp.result,
                           !.progress = 100]

finishSessionFailedHalfDone(r) ==
    state' = [state EXCEPT !.isLoading = FALSE, !.isFinishing = FALSE,
                           !.isFinished = TRUE, !.progress = 100]

finishSessionFailed(r) ==
    state' = [state EXCEPT !.isLoading = FALSE, !.isFinishing = FALSE]

\* extractUserInsights(state.sessionId), called without await after the
\* success setState: the request to the analytics collaborator
InsightsCall(sid) == Call("insights", sid, Null, TRUE, 0, NoResp)

insightsAfterFinishAlways(r) == SetToBag({InsightsCall(r.sid)})

\* the try block reaches the call only when apiFinishSession has succeeded
insightsAfterFinish(r) ==
    IF r.ok THEN SetToBag({InsightsCall(r.sid)}) ELSE EmptyBag

FinishReply ==
    \E r \in Outstanding({"finish"}) :
        /\ net' = (net (-) SetToBag({r})) (+) insightsAfterFinish(r)
        /\ IF r.ok THEN finishSessionSucceeded(r) ELSE finishSessionFailed(r)
        /\ UNCHANGED << restorationAttemptedRef, isRestoringRef, restore, storage,
                        server, pendingUpgrade, upgradeTriggeredRef, calls, counts >>

extractUserInsightsSurfacingFailure(answered) ==
    state' = IF answered THEN state
             ELSE [state EXCEPT !.error = "error", !.isFinished = FALSE]

\* fetchAnalytics swallows a failed or unanswered request (it logs a warning
\* and returns null), and the caller's .catch only logs: nothing is assigned
extractUserInsights(answered) == state' = state

\* the analytics collaborator answers the insight request, or the request
\* fails; a request that never returns stays outstanding
InsightsReply ==
    \E r \in Outstanding({"insights"}), answered \in BOOLEAN :
        /\ Settle(r)
        /\ extractUserInsights(answered)
        /\ UNCHANGED << restorationAttemptedRef, isRestoringRef, restore, storage,
                        server, pendingUpgrade, upgradeTriggeredRef, calls, counts >>

\* the "view my result" button: shown when at max rounds or finished, no
\* typing, no error, no result; disabled={state.isFinishing || state.isLoading}
FinishClick ==
    /\ View = "chat"
    /\ state.isAtMaxRounds \/ state.isFinished
    /\ ~state.isTyping
    /\ state.error = Null
    /\ state.resultData = NoResult
    /\ ~(state.isFinishing \/ state.isLoading)
    /\ finishSession

\* ------------------------------------------------------------------------
\* upgradeToStandard / upgradeToDeep
\* ------------------------------------------------------------------------
\* the part of both up to the await; bounded says whether the model's bound
\* on outstanding calls applies to this invocation
upgradeCall(kind, bounded) ==
    /\ state.sessionId # NoSession
    /\ bounded => CanIssue
    /\ state' = [state EXCEPT !.isLoading = TRUE, !.isTyping = TRUE]
    /\ \/ /\ SrvCanUpgrade(server, state.sessionId)
          /\ server' = SrvAfterUpgrade(server, state.sessionId)
          /\ Issue(Call(kind, state.sessionId, Null, TRUE, 0,
                        SrvUpgradeResp(server, state.sessionId)))
       \/ /\ UNCHANGED server
          /\ Issue(Call(kind, state.sessionId, Null, FALSE, 0, NoResp))
    /\ UNCHANGED << restorationAttemptedRef, isRestoringRef, restore, storage, counts >>

upgradeToStandard == upgradeCall("upgradeToStandard", TRUE)
upgradeToDeep == upgradeCall("upgradeToDeep", TRUE)

upgradeSucceededKeepingResult(r, depth, maxRounds) ==
    state' = [state EXCEPT !.depth = depth,
                           !.isAtMaxRounds = FALSE,
                           !.isLoading = FALSE,
                           !.isTyping = FALSE,
                           !.maxRounds = maxRounds]

upgradeSucceeded(r, depth, maxRounds) ==
    LET aiMessage ==
            AssistantMessage("question", r.currentPrediction, r.confidenceScore,
                             MathRound(r.currentRound * 100, maxRounds), "undefined")
    IN state' = [state EXCEPT
                   !.depth = depth,
                   !.isFinished = FALSE,
                   !.isAtMaxRounds = FALSE,
                   !.resultData = NoResult,
                   !.isLoading = FALSE,
                   !.isTyping = FALSE,
                   !.messages = Append(@, aiMessage),
                   !.currentPrediction = state.currentPrediction,
                   !.confidenceScore = state.confidenceScore,
                   !.maxRounds = maxRounds,
                   !.progress = MathRound(state.currentRound * 100, maxRounds)]

upgradeToStandardSucceeded(r) == upgradeSucceeded(r, "standard", 15)
upgradeToDeepSucceeded(r) == upgradeSucceeded(r, "deep", 30)

upgradeFailedStillTyping(r) ==
    state' = [state EXCEPT !.isLoading = FALSE]

upgradeFailed(r) ==
    state' = [state EXCEPT !.isLoading = FALSE, !.isTyping = FALSE]

UpgradeReply ==
    \E r \in Outstanding(UpgradeKinds) :
        /\ Settle(r)
        /\ IF ~r.ok THEN upgradeFailed(r)
           ELSE IF r.kind = "upgradeToStandard" THEN upgradeToStandardSucceeded(r)
           ELSE upgradeToDeepSucceeded(r)
        /\ UNCHANGED << restorationAttemptedRef, isRestoringRef, restore, storage,
                        server, pendingUpgrade, upgradeTriggeredRef, calls, counts >>

\* ResultView upgrade buttons: disabled={isUpgrading}, isUpgrading={state.isLoading}
UpgradeToStandardClick ==
    /\ View = "result"
    /\ isShallowMode
    /\ ~state.isLoading
    /\ upgradeToStandard
    /\ UNCHANGED << pendingUpgrade, upgradeTriggeredRef >>

UpgradeToDeepClick ==
    /\ View = "result"
    /\ isStandardMode
    /\ ~state.isLoading
    /\ upgradeToDeep
    /\ UNCHANGED << pendingUpgrade, upgradeTriggeredRef >>

\* page effect: trigger the upgrade asked for by the URL once the session is
\* restored and finished
PendingUpgradeReady ==
    /\ pendingUpgrade # Null
    /\ ~upgradeTriggeredRef
    /\ state.isStarted
    /\ ~state.isRestoring
    /\ state.isFinished
    /\ ~state.isLoading

PendingUpgradeEffect ==
    /\ PendingUpgradeReady
    /\ upgradeTriggeredRef' = TRUE
    /\ pendingUpgrade' = Null
    /\ IF state.sessionId = NoSession
       THEN UNCHANGED << state, restorationAttemptedRef, isRestoringRef, restore,
                         storage, server, net, calls, counts >>
       ELSE upgradeCall(IF pendingUpgrade = "standard" THEN "upgradeToStandard"
                        ELSE "upgradeToDeep", FALSE)

\* ------------------------------------------------------------------------
\* reset
\* ------------------------------------------------------------------------
resetKeepingError ==
    /\ storage' = NoSession
    /\ state' = [initialState EXCEPT !.error = state.error,
                                     !.lastFailedMessage = state.lastFailedMessage,
                                     !.retryCount = state.retryCount]
    /\ restorationAttemptedRef' = TRUE
    /\ UNCHANGED << isRestoringRef, restore, server, net, pendingUpgrade,
                    upgradeTriggeredRef, calls, counts >>

reset ==
    /\ storage' = NoSession
    /\ state' = initialState
    /\ restorationAttemptedRef' = TRUE
    /\ UNCHANGED << isRestoringRef, restore, server, net, pendingUpgrade,
                    upgradeTriggeredRef, calls, counts >>

\* the restart / exit button of the result and chat views
HandleRestart ==
    /\ View \in {"result", "chat"}
    /\ reset


\* ------------------------------------------------------------------------
\* restoreSession (the mount effect of the hook)
\* ------------------------------------------------------------------------
\* the guard at the head of restoreSession
restorationGuardInFlightOnly == isRestoringRef

restorationGuard == restorationAttemptedRef \/ isRestoringRef

\* a fetch of restoration: the service answers, or the call fails
Fetch(pc, sid, canAnswer, resp) ==
    \E ok \in BOOLEAN :
        /\ ok => canAnswer
        /\ restore' = [restore EXCEPT !.pc = pc, !.sid = sid, !.ok = ok,
                                      !.resp = IF ok THEN resp ELSE NoResp]

restoreSession ==
    IF restorationGuard
    THEN UNCHANGED vars
    ELSE IF storage = NoSession
    THEN /\ restorationAttemptedRef' = TRUE
         /\ UNCHANGED << state, isRestoringRef, restore, storage, server, net,
                         pendingUpgrade, upgradeTriggeredRef, calls, counts >>
    ELSE /\ isRestoringRef' = TRUE
         /\ restorationAttemptedRef' = TRUE
         /\ state' = [state EXCEPT !.isRestoring = TRUE]
         /\ Fetch("status", storage, SrvExists(server, storage),
                  SrvStatusResp(server, storage))
         /\ counts' = [counts EXCEPT !.statusP = Bump(@), !.statusM = Bump(@)]
         /\ calls' = calls + 1
         /\ UNCHANGED << storage, server, net, pendingUpgrade, upgradeTriggeredRef >>

MountEffect == restoreSession

restoreFailedKeepingId ==
    /\ state' = [state EXCEPT !.isRestoring = FALSE]
    /\ isRestoringRef' = FALSE
    /\ restore' = RestoreIdle
    /\ UNCHANGED << restorationAttemptedRef, storage, server, net, pendingUpgrade,
                    upgradeTriggeredRef, calls, counts >>

\* the catch and finally blocks
restoreFailed ==
    /\ storage' = NoSession
    /\ state' = [state EXCEPT !.isRestoring = FALSE]
    /\ isRestoringRef' = FALSE
    /\ restore' = RestoreIdle
    /\ UNCHANGED << restorationAttemptedRef, server, net, pendingUpgrade,
                    upgradeTriggeredRef, calls, counts >>

RestoreStatusReply ==
    /\ restore.pc = "status"
    /\ IF ~restore.ok THEN restoreFailed
       ELSE /\ \E ok \in BOOLEAN :
                 restore' = [restore EXCEPT
                    !.pc = "history", !.ok = ok,
                    !.sessionStatus = restore.resp,
                    !.resp = IF ok THEN SrvHistoryResp(server, restore.sid) ELSE NoResp]
            /\ counts' = [counts EXCEPT !.historyP = Bump(@), !.historyM = Bump(@)]
            /\ UNCHANGED << state, restorationAttemptedRef, isRestoringRef, storage,
                            server, net, pendingUpgrade, upgradeTriggeredRef, calls >>

\* chatHistory.messages.map(...)
RECURSIVE toChatMessages(_)
toChatMessages(history) ==
    IF history = <<>> THEN <<>>
    ELSE << [role |-> IF Head(history).role = "model" THEN "assistant" ELSE "user",
             content |-> Head(history).content,
             meta |-> Head(history).ai_metadata] >>
         \o toChatMessages(Tail(history))

\* the state restoreSession sets from the status, the history and the result
restoredState(storedSessionId, sessionStatus, messages, resultData) ==
    LET depth == sessionStatus.depth
        maxRounds == DEPTH_MAX_ROUNDS(depth)
    IN [ sessionId         |-> storedSessionId,
         depth             |-> depth,
         isStarted         |-> TRUE,
         isRestoring       |-> FALSE,
         messages          |-> messages,
         input             |-> "",
         isLoading         |-> FALSE,
         isTyping          |-> FALSE,
         progress          |-> IF sessionStatus.is_complete THEN 100
                               ELSE calculateProgress(sessionStatus.current_round, depth),
         currentPrediction |-> IF sessionStatus.current_prediction = Null THEN "Unknown"
                               ELSE sessionStatus.current_prediction,
         confidenceScore   |-> sessionStatus.confidence_score,
         currentRound      |-> sessionStatus.current_round,
         maxRounds         |-> maxRounds,
         developmentLevel  |-> sessionStatus.development_level,
         isFinished        |-> sessionStatus.is_complete /\ resultData # NoResult,
         isAtMaxRounds     |-> sessionStatus.current_round >= maxRounds,
         isFinishing       |-> FALSE,
         resultData        |-> resultData,
         error             |-> Null,
         lastFailedMessage |-> Null,
         retryCount        |-> 0 ]

restoreApplyInferringFinished(messages, resultData) ==
    /\ state' = [restoredState(restore.sid, restore.sessionStatus, messages, resultData)
                    EXCEPT !.isFinished = restore.sessionStatus.is_complete]
    /\ isRestoringRef' = FALSE
    /\ restore' = RestoreIdle
    /\ counts' = [counts EXCEPT !.appliedP = Bump(@), !.appliedM = Bump(@)]
    /\ UNCHANGED << restorationAttemptedRef, storage, net, pendingUpgrade,
                    upgradeTriggeredRef, calls >>

restoreApply(messages, resultData) ==
    /\ state' = restoredState(restore.sid, restore.sessionStatus, messages, resultData)
    /\ isRestoringRef' = FALSE
    /\ restore' = RestoreIdle
    /\ counts' = [counts EXCEPT !.appliedP = Bump(@), !.appliedM = Bump(@)]
    /\ UNCHANGED << restorationAttemptedRef, storage, net, pendingUpgrade,
                    upgradeTriggeredRef, calls >>

needsResult(sessionStatus) ==
    /\ sessionStatus.is_complete
    /\ sessionStatus.current_prediction # Null
    /\ sessionStatus.current_prediction # "Unknown"

RestoreHistoryReply ==
    /\ restore.pc = "history"
    /\ IF ~restore.ok THEN restoreFailed
       ELSE IF needsResult(restore.sessionStatus)
       THEN /\ \E ok \in BOOLEAN :
                 /\ ok => SrvCanFinish(server, restore.sid)
                 /\ restore' = [restore EXCEPT
                       !.pc = "finish", !.ok = ok,
                       !.chatHistory = toChatMessages(restore.resp.messages),
                       !.resp = IF ok THEN SrvFinishResp(server, restore.sid) ELSE NoResp]
                 /\ server' = IF ok THEN SrvAfterFinish(server, restore.sid) ELSE server
            /\ UNCHANGED << state, restorationAttemptedRef, isRestoringRef, storage, net,
                            pendingUpgrade, upgradeTriggeredRef, calls, counts >>
       ELSE /\ restoreApply(toChatMessages(restore.resp.messages), NoResult)
            /\ UNCHANGED server

RestoreFinishReply ==
    /\ restore.pc = "finish"
    /\ restoreApply(restore.chatHistory, IF restore.ok THEN restore.resp.result ELSE NoResult)
    /\ UNCHANGED server

\* ------------------------------------------------------------------------
\* Component re-entry: the page is left and entered again (router.push("/")
\* of the results page); the hook is instantiated anew with fresh state and
\* refs, and what the old instance awaited is abandoned
\* ------------------------------------------------------------------------
Remount ==
    /\ state' = initialState
    /\ restorationAttemptedRef' = FALSE
    /\ isRestoringRef' = FALSE
    /\ restore' = RestoreIdle
    /\ net' = EmptyBag
    /\ pendingUpgrade' = Null
    /\ upgradeTriggeredRef' = FALSE
    /\ counts' = [counts EXCEPT !.statusM = 0, !.historyM = 0, !.appliedM = 0]
    /\ calls < MaxCalls
    /\ calls' = calls + 1
    /\ UNCHANGED << storage, server >>

\* ------------------------------------------------------------------------
\* The results page (app/results/[sessionId]/page.tsx)
\* ------------------------------------------------------------------------
\* loadSession shows a result for a session the service knows and that has a
\* prediction
resultsLoaded(srv, sid) ==
    /\ SrvExists(srv, sid)
    /\ SrvStatusResp(srv, sid).current_prediction \notin {Null, "Unknown"}

\* setCanContinue: an incomplete session can be continued
canContinue(srv, sid) == ~SrvStatusResp(srv, sid).is_complete

resultsIsShallowMode(srv, sid) ==
    SrvStatusResp(srv, sid).current_prediction \in COLOR_TYPES

resultsIsStandardMode(srv, sid) ==
    SrvStatusResp(srv, sid).depth = "standard" /\ ~resultsIsShallowMode(srv, sid)

ResultsButtons ==
    {"saveAndContinue", "handleUpgradeToStandard", "handleUpgradeToDeep",
     "handleRestart"}

\* the buttons the results page of session sid renders
resultsButtonShown(srv, sid, button) ==
    /\ resultsLoaded(srv, sid)
    /\ CASE button = "saveAndContinue" -> canContinue(srv, sid)
         [] button = "handleUpgradeToStandard" ->
                ~canContinue(srv, sid) /\ resultsIsShallowMode(srv, sid)
         [] button = "handleUpgradeToDeep" ->
                ~canContinue(srv, sid) /\ resultsIsStandardMode(srv, sid)
         [] OTHER -> ~canContinue(srv, sid)

\* what the button leaves in localStorage before it navigates
resultsStorageWrite(sid, button) ==
    IF button = "handleRestart" THEN NoSession ELSE sid

\* the upgrade parameter of the URL the button navigates to
resultsUpgradeParam(button) ==
    CASE button = "handleUpgradeToStandard" -> "standard"
      [] button = "handleUpgradeToDeep" -> "deep"
      [] OTHER -> Null

\* the visitor opened the results page of session sid (the chat page is
\* unmounted), and a button of that page writes localStorage and navigates
\* back to the chat page, which mounts afresh
ResultsPageReturn ==
    /\ calls < MaxCalls
    /\ calls' = calls + 1
    /\ \E sid \in SessionIds, button \in ResultsButtons :
          /\ resultsButtonShown(server, sid, button)
          /\ storage' = resultsStorageWrite(sid, button)
          /\ pendingUpgrade' = resultsUpgradeParam(button)
    /\ state' = initialState
    /\ restorationAttemptedRef' = FALSE
    /\ isRestoringRef' = FALSE
    /\ restore' = RestoreIdle
    /\ net' = EmptyBag
    /\ upgradeTriggeredRef' = FALSE
    /\ counts' = [counts EXCEPT !.statusM = 0, !.historyM = 0, !.appliedM = 0]
    /\ UNCHANGED server

\* ------------------------------------------------------------------------
\* Specification
\* ------------------------------------------------------------------------
\* effects run before the next event is handled
EffectsSettled == restorationAttemptedRef /\ ~PendingUpgradeReady

Next ==
    \/ MountEffect
    \/ PendingUpgradeEffect
    \/ EffectsSettled /\ RestoreStatusReply
    \/ EffectsSettled /\ RestoreHistoryReply
    \/ EffectsSettled /\ RestoreFinishReply
    \/ EffectsSettled /\ HandleDepthSelect
    \/ EffectsSettled /\ FeatureDemoStartTest
    \/ EffectsSettled /\ StartReply
    \/ EffectsSettled /\ SetInput
    \/ EffectsSettled /\ HandleSubmit
    \/ EffectsSettled /\ RetryClick
    \/ EffectsSettled /\ MessageReply
    \/ EffectsSettled /\ FinishClick
    \/ EffectsSettled /\ FinishReply
    \/ EffectsSettled /\ InsightsReply
    \/ EffectsSettled /\ UpgradeToStandardClick
    \/ EffectsSettled /\ UpgradeToDeepClick
    \/ EffectsSettled /\ UpgradeReply
    \/ EffectsSettled /\ HandleRestart
    \/ EffectsSettled /\ Remount
    \/ EffectsSettled /\ ResultsPageReturn

Spec == Init /\ [][Next]_vars

\* a step that runs an effect of the page or applies the reply of a remote
\* call
ReplyStep ==
    \/ MountEffect
    \/ PendingUpgradeEffect
    \/ EffectsSettled /\ RestoreStatusReply
    \/ EffectsSettled /\ RestoreHistoryReply
    \/ EffectsSettled /\ RestoreFinishReply
    \/ EffectsSettled /\ StartReply
    \/ EffectsSettled /\ MessageReply
    \/ EffectsSettled /\ FinishReply
    \/ EffectsSettled /\ InsightsReply
    \/ EffectsSettled /\ UpgradeReply

\* every remote call eventually returns and the effects of the page run:
\* while an effect is due or a reply is outstanding, one of them is taken
RepliesArrive == WF_vars(ReplyStep)

LiveSpec == Spec /\ RepliesArrive


\* ------------------------------------------------------------------------
\* Properties
\* ------------------------------------------------------------------------
\* outstanding calls of the given kinds made for session sid
RECURSIVE SumCopies(_)
SumCopies(rs) ==
    IF rs = {} THEN 0
    ELSE LET r == CHOOSE x \in rs : TRUE
         IN CopiesIn(r, net) + SumCopies(rs \ {r})

OutstandingFor(kinds, sid) == SumCopies({r \in Outstanding(kinds) : r.sid = sid})

\* C1: serialization of sends: at most one message exchange is outstanding
\* per session at any time (a second sendMessage while one is in flight issues
\* no second network call).
C1_OneMessageExchangeOutstanding ==
    \A sid \in SessionIds : OutstandingFor({"message"}, sid) <= 1


\* a step that issues a remote call of one of the kinds for content c
Issues(kinds, c) ==
    \E r \in BagToSet(net') :
        /\ r.kind \in kinds
        /\ r.content = c
        /\ CopiesIn(r, net') = CopiesIn(r, net) + 1

\* a step that applies the reply to the outstanding call r (a re-entry of the
\* page drops the outstanding calls without applying any reply)
Settles(r) ==
    /\ CopiesIn(r, net) > 0
    /\ \/ net' = net (-) SetToBag({r})
       \/ /\ r.kind = "finish" /\ r.ok
          /\ net' = (net (-) SetToBag({r})) (+) SetToBag({InsightsCall(r.sid)})
    /\ calls' = calls

C3_OncePerProcess ==
    counts.statusP <= 1 /\ counts.historyP <= 1 /\ counts.appliedP <= 1

\* C3 (amended): restoration runs at most once per mount of the hook: under
\* duplicate invocation of the mount effect, while a restoration is in
\* flight and after reset(), one mounted instance issues at most one status
\* fetch and one history fetch and applies at most one restored state.
C3_OncePerMount ==
    counts.statusM <= 1 /\ counts.historyM <= 1 /\ counts.appliedM <= 1

\* a restored session was reset and its instance has not restored again
C3_Witness ==
    /\ counts.appliedM = 1
    /\ counts.historyM = 1
    /\ restorationAttemptedRef
    /\ state.sessionId = NoSession
    /\ storage = NoSession


\* the target tier of an upgrade call and its number of rounds
UpgradeTarget(kind) == IF kind = "upgradeToStandard" THEN "standard" ELSE "deep"

\* C4: upgrade continuity: the step that applies a successful upgrade reply
\* leaves currentPrediction, confidenceScore and currentRound as they were,
\* sets depth to the target tier and maxRounds to that tier's number of
\* rounds, clears isFinished and isAtMaxRounds, and appends exactly one
\* assistant message whose metadata carries the prediction and confidence
\* the state has right after the upgrade.
C4_UpgradeContinuity ==
    [][ \A r \in Outstanding(UpgradeKinds) :
          (r.ok /\ Settles(r)) =>
             /\ state'.currentPrediction = state.currentPrediction
             /\ state'.confidenceScore = state.confidenceScore
             /\ state'.currentRound = state.currentRound
             /\ state'.depth = UpgradeTarget(r.kind)
             /\ state'.maxRounds = DEPTH_MAX_ROUNDS(UpgradeTarget(r.kind))
             /\ ~state'.isFinished
             /\ ~state'.isAtMaxRounds
             /\ Len(state'.messages) = Len(state.messages) + 1
             /\ SubSeq(state'.messages, 1, Len(state.messages)) = state.messages
             /\ LET m == state'.messages[Len(state'.messages)]
                IN /\ m.role = "assistant"
                   /\ m.meta[1] = state'.currentPrediction
                   /\ m.meta[2] = state'.confidenceScore ]_vars


\* C5: terminal exclusivity: right after a successful finish reply the state
\* has a result, isFinished = TRUE and progress = 100; right after a
\* successful upgrade reply (in particular one that follows a finish) the
\* state has no result and isFinished = FALSE.
C5_TerminalExclusivity ==
    [][ /\ \A r \in Outstanding({"finish"}) :
              (r.ok /\ Settles(r)) =>
                 /\ state'.resultData # NoResult
                 /\ state'.isFinished
                 /\ state'.progress = 100
        /\ \A r \in Outstanding(UpgradeKinds) :
              (r.ok /\ Settles(r)) =>
                 /\ state'.resultData = NoResult
                 /\ ~state'.isFinished ]_vars

\* a conversation finished by a send, whose result was shown, has been reopened
\* by an upgrade chosen in the result view
C5_Witness ==
    /\ ~upgradeTriggeredRef
    /\ Len(state.messages) >= 2
    /\ state.messages[Len(state.messages)].content = "question"
    /\ state.messages[Len(state.messages) - 1].content = "reply"
    /\ state.messages[Len(state.messages) - 1].meta[4] = "true"
    /\ state.resultData = NoResult
    /\ ~state.isFinished
    /\ state.depth = "standard"

\* C6: progress is the derived round ratio: in every state with an active,
\* not yet finished session, progress = min(100, round(currentRound /
\* maxRounds * 100)) for the state's own currentRound and maxRounds.
C6_ProgressIsRoundRatio ==
    (state.isStarted /\ ~state.isFinished) =>
        state.progress = Min(100, MathRound(state.currentRound * 100, state.maxRounds))

\* C7: maxRounds is determined by depth: in every state with an active
\* session maxRounds is 5 for shallow, 15 for standard and 30 for deep, also
\* right after startSession succeeded and before any message.
C7_MaxRoundsFromDepth ==
    (state.isStarted /\ state.depth # Null) =>
        state.maxRounds = DEPTH_MAX_ROUNDS(state.depth)

\* C8: single mutating action in flight: in every state at most one remote
\* request of sendMessage, finishSession, upgradeToStandard / upgradeToDeep
\* is outstanding for a session.
C8_OneMutatingActionInFlight ==
    \A sid \in SessionIds :
        OutstandingFor({"message", "finish"} \cup UpgradeKinds, sid) <= 1


\* C9: failed message exchange: the step that applies a failed reply of the
\* message call leaves the messages as they are (the optimistically appended
\* user message stays, no assistant message is appended), sets
\* lastFailedMessage to the attempted content and error to a classification,
\* adds exactly 1 to retryCount and leaves currentRound, maxRounds, the
\* prediction and the confidence unchanged.
C9_FailedMessageExchange ==
    [][ \A r \in Outstanding({"message"}) :
          (~r.ok /\ Settles(r)) =>
             /\ state'.messages = state.messages
             /\ r.sid = state.sessionId => UserCount(state'.messages, r.content) >= 1
             /\ state'.lastFailedMessage = r.content
             /\ state'.error # Null
             /\ state'.retryCount = state.retryCount + 1
             /\ state'.currentRound = state.currentRound
             /\ state'.maxRounds = state.maxRounds
             /\ state'.currentPrediction = state.currentPrediction
             /\ state'.confidenceScore = state.confidenceScore ]_vars

\* a send has failed: its user message is the last message of the session
C9_Witness ==
    /\ state.sessionId # NoSession
    /\ state.error # Null
    /\ state.lastFailedMessage \in Contents
    /\ state.retryCount = 1
    /\ ~state.isLoading
    /\ state.messages # <<>>
    /\ state.messages[Len(state.messages)] = UserMessage(state.lastFailedMessage)

\* C10: a failed startSession leaves no partial session: the step that
\* applies a failed reply of the start call leaves sessionId (null when no
\* session was active), isStarted, depth and messages as they were, writes
\* nothing to the persistence bridge and sets isLoading to FALSE.
C10_FailedStartLeavesNoSession ==
    [][ \A r \in Outstanding({"start"}) :
          (~r.ok /\ Settles(r)) =>
             /\ state'.sessionId = state.sessionId
             /\ state'.isStarted = state.isStarted
             /\ state'.depth = state.depth
             /\ state'.messages = state.messages
             /\ storage' = storage
             /\ ~state'.isLoading ]_vars

\* of two starts one has failed and one has succeeded, and nothing else has
\* happened: the session is the one of the start that succeeded
C10_Witness ==
    /\ calls = 2
    /\ counts = NoCounts
    /\ net = EmptyBag
    /\ state.sessionId = 1
    /\ storage = 1
    /\ server[2] = NoRecord
    /\ state.messages = <<greetingMessage>>
    /\ state.error = Null
    /\ ~state.isLoading


\* C11: failure atomicity of upgrade and finish: the step that applies a
\* failed upgrade reply leaves depth, maxRounds, isFinished, isAtMaxRounds,
\* resultData, progress and messages as they were and clears isLoading and
\* isTyping; the step that applies a failed finish reply leaves isFinished,
\* resultData, progress, the rounds, messages and the session id (so finish
\* can be invoked again) as they were and clears isLoading and isFinishing.
C11_FailureAtomicity ==
    [][ /\ \A r \in Outstanding(UpgradeKinds) :
              (~r.ok /\ Settles(r)) =>
                 /\ state'.depth = state.depth
                 /\ state'.maxRounds = state.maxRounds
                 /\ state'.isFinished = state.isFinished
                 /\ state'.isAtMaxRounds = state.isAtMaxRounds
                 /\ state'.resultData = state.resultData
                 /\ state'.progress = state.progress
                 /\ state'.messages = state.messages
                 /\ ~state'.isLoading
                 /\ ~state'.isTyping
        /\ \A r \in Outstanding({"finish"}) :
              (~r.ok /\ Settles(r)) =>
                 /\ state'.isFinished = state.isFinished
                 /\ state'.resultData = state.resultData
                 /\ state'.progress = state.progress
                 /\ state'.currentRound = state.currentRound
                 /\ state'.maxRounds = state.maxRounds
                 /\ state'.messages = state.messages
                 /\ state'.sessionId = state.sessionId
                 /\ ~state'.isLoading
                 /\ ~state'.isFinishing ]_vars

\* a finish has failed in a session restored at its last round without its
\* result: the button that invokes finishSession is there again
C11_Witness ==
    /\ state.sessionId # NoSession
    /\ View = "chat"
    /\ state.isAtMaxRounds
    /\ ~state.isFinished
    /\ state.resultData = NoResult
    /\ ~state.isLoading
    /\ ~state.isFinishing
    /\ net = EmptyBag
    /\ state.error = Null
    /\ counts.appliedM = 1
    /\ calls = 2
    /\ ~upgradeTriggeredRef


\* C12: no remote-call failure escapes an action: whenever the reply of a
\* failed remote call of startSession, sendMessage, finishSession or an
\* upgrade is applied, the promise of the action resolves; none rejects to
\* its caller.
C12_NoFailureEscapes ==
    [][ \A r \in BagToSet(net) :
          (~r.ok /\ Settles(r)) => promiseOutcome(r.kind, r.ok) = "resolved" ]_vars


\* C13: NotFound is not retried: the step that applies the reply of a message
\* call that failed with status 404 clears the session in memory and the
\* persisted id and leaves no lastFailedMessage to retry against the same
\* sessionId.
C13_NotFoundClearsSession ==
    [][ \A r \in Outstanding({"message"}) :
          (~r.ok /\ r.status = 404 /\ Settles(r)) =>
             /\ state'.sessionId = NoSession
             /\ storage' = NoSession
             /\ state'.lastFailedMessage = Null ]_vars


\* a step of the running restoration (a re-entry of the page abandons it
\* instead)
RestoreSteps == restore.pc # "idle" /\ restore' # restore /\ calls' = calls

\* C14: restoration failure means no prior session: the step in which the
\* status fetch or the history fetch of restoration has failed clears the
\* persisted session id and ends in the not-started state: isRestoring and
\* isStarted FALSE, no sessionId, no messages.
C14_RestorationFailure ==
    [][ (restore.pc \in {"status", "history"} /\ ~restore.ok /\ RestoreSteps) =>
           /\ storage' = NoSession
           /\ ~state'.isRestoring
           /\ ~state'.isStarted
           /\ state'.sessionId = NoSession
           /\ state'.messages = <<>> ]_vars

\* the restoration of a session the service holds has failed
C14_Witness ==
    /\ calls = 1
    /\ counts.statusM = 1
    /\ counts.appliedM = 0
    /\ restore = RestoreIdle
    /\ restorationAttemptedRef
    /\ ~isRestoringRef
    /\ server[1] # NoRecord
    /\ storage = NoSession
    /\ state = initialState


C16_ResetRecoversCleanState ==
    [][ reset =>
          /\ net' = net /\ server' = server /\ calls' = calls
          /\ storage' = NoSession
          /\ state'.sessionId = NoSession
          /\ ~state'.isStarted
          /\ state'.messages = <<>>
          /\ state'.currentRound = 0
          /\ state'.currentPrediction = "Unknown"
          /\ ~state'.isLoading /\ ~state'.isTyping /\ ~state'.isFinishing
          /\ ~state'.isFinished /\ ~state'.isAtMaxRounds /\ ~state'.isRestoring
          /\ state'.error = Null
          /\ state'.lastFailedMessage = Null
          /\ state'.retryCount = 0
          /\ state' = initialState ]_vars

\* reset was invoked while a message exchange of the session was outstanding
C16_Witness ==
    /\ state = initialState
    /\ storage = NoSession
    /\ restorationAttemptedRef
    /\ \E r \in Outstanding({"message"}) : SrvExists(server, r.sid)


\* C17: the session id is immutable until reset: once the state holds a
\* session id, no step replaces it by a different session id (only reset,
\* which clears it, ends the session), and a start of a session is issued
\* only when the state holds no session id.
C17_SessionIdImmutable ==
    [][ /\ (state.sessionId # NoSession /\ state'.sessionId # NoSession)
            => state'.sessionId = state.sessionId
        /\ (\E r \in BagToSet(net') :
                r.kind = "start" /\ CopiesIn(r, net') = CopiesIn(r, net) + 1)
            => state.sessionId = NoSession ]_vars


\* C18: round monotonicity: while the state stays in one session (the session
\* id is kept), no step lowers currentRound.
C18_RoundMonotone ==
    [][ (state.sessionId # NoSession /\ state'.sessionId = state.sessionId)
          => state'.currentRound >= state.currentRound ]_vars


\* a step in which the chat page is left and mounted again
Remounts == Remount \/ ResultsPageReturn

\* C19: Finished is terminal unless upgraded: once the state is finished with
\* a result, every step keeps isFinished true and resultData the same value,
\* except a step that applies a successful upgrade reply, a reset, or a
\* re-entry of the page (which starts from a fresh state); in particular no
\* send and no reply to a send reopens the conversation or changes the result.
C19_FinishedIsTerminal ==
    [][ (state.isFinished /\ state.resultData # NoResult)
          => \/ state'.isFinished /\ state'.resultData = state.resultData
             \/ \E r \in Outstanding(UpgradeKinds) : r.ok /\ Settles(r)
             \/ reset
             \/ Remounts ]_vars


\* C20 (as stated): persistence discipline: the persisted session id is read
\* exactly once, at startup (before any other operation of the process), and
\* it changes only in a step that applies a successful start reply (save) or
\* in a reset (clear); no other action, failure path or page writes or clears
\* it.
C20_PersistenceDiscipline ==
    [][ /\ (~restorationGuard /\ restorationAttemptedRef' /\ ~reset) => calls = 0
        /\ storage' # storage =>
              \/ \E r \in Outstanding({"start"}) :
                    r.ok /\ Settles(r) /\ storage' = r.resp.session_id
              \/ reset ]_vars

\* C20 (amended): the persisted session id is read once per mount of the
\* chat page (the guard that allows the read is re-armed only by a re-entry
\* of the page); every successful start reply saves the id of the new session
\* and every reset clears the entry; and the entry changes only in such a
\* step, in the failure path of restoration (clear), or in a button handler
\* of the results page (saveAndContinue and the two upgrade handlers save the
\* id of the session shown, handleRestart clears the entry).
C20_PersistenceWriters ==
    [][ /\ (restorationAttemptedRef /\ ~restorationAttemptedRef') => Remounts
        /\ \A r \in Outstanding({"start"}) :
              (r.ok /\ Settles(r)) => storage' = r.resp.session_id
        /\ reset => storage' = NoSession
        /\ storage' # storage =>
              \/ \E r \in Outstanding({"start"}) :
                    r.ok /\ Settles(r) /\ storage' = r.resp.session_id
              \/ reset
              \/ /\ restore.pc \in {"status", "history"} /\ ~restore.ok
                 /\ RestoreSteps
                 /\ storage' = NoSession
              \/ ResultsPageReturn ]_vars

\* an upgrade button of the results page of session 1 replaced the persisted
\* id of session 2, which this process had started
C20_Witness ==
    /\ SrvExists(server, 2)
    /\ storage = 1
    /\ pendingUpgrade # Null
    /\ ~restorationAttemptedRef
    /\ state = initialState


\* the number of outstanding insight requests
InsightsOutstanding(bag) ==
    BagCardinality([r \in {x \in BagToSet(bag) : x.kind = "insights"} |-> bag[r]])

\* C21: insight extraction is detached: an insight request is issued only in
\* the step that applies a successful finish reply (a failed finish reply
\* issues none); that step reaches the finished state with the result and
\* progress 100 and ends the busy flags whatever becomes of the request; and
\* the step in which the request is answered or fails changes nothing of the
\* session state, the persisted id or the service.
C21_InsightExtractionDetached ==
    [][ /\ \A r \in Outstanding({"finish"}) :
              Settles(r) =>
                 IF r.ok
                 THEN /\ InsightsOutstanding(net') = InsightsOutstanding(net) + 1
                      /\ CopiesIn(InsightsCall(r.sid), net')
                            = CopiesIn(InsightsCall(r.sid), net) + 1
                      /\ state'.isFinished
                      /\ state'.resultData = r.resp.result
                      /\ state'.resultData # NoResult
                      /\ state'.progress = 100
                      /\ ~state'.isLoading /\ ~state'.isFinishing
                 ELSE InsightsOutstanding(net') = InsightsOutstanding(net)
        /\ InsightsOutstanding(net') > InsightsOutstanding(net)
              => \E r \in Outstanding({"finish"}) : r.ok /\ Settles(r)
        /\ \A r \in Outstanding({"insights"}) :
              Settles(r) => /\ state' = state
                            /\ storage' = storage
                            /\ server' = server ]_vars

\* the finish of the session on screen has succeeded and its insight request
\* has not returned: the result is shown all the same
C21_Witness ==
    /\ state.sessionId # NoSession
    /\ state.isFinished
    /\ state.resultData # NoResult
    /\ state.progress = 100
    /\ ~state.isLoading /\ ~state.isFinishing
    /\ CopiesIn(InsightsCall(state.sessionId), net) > 0


\* the content of the most recent user message, Null when there is none
RECURSIVE LastUserContent(_)
LastUserContent(msgs) ==
    IF msgs = <<>> THEN Null
    ELSE IF msgs[Len(msgs)].role = "user" THEN msgs[Len(msgs)].content
    ELSE LastUserContent(SubSeq(msgs, 1, Len(msgs) - 1))

\* C22: deduplication applies only to the most recent user message: a step
\* that issues a message call with content c leaves the messages as they are
\* when c is the content of the most recent user message, and in every other
\* case (c equal to an older user message included) appends exactly one user
\* message with content c.
C22_DedupOnlyMostRecent ==
    [][ \A c \in Contents :
          Issues({"message"}, c) =>
             IF LastUserContent(state.messages) = c
             THEN state'.messages = state.messages
             ELSE state'.messages = Append(state.messages, UserMessage(c)) ]_vars


\* C23: the stale-reply race: the reply (success or failure) to a message,
\* finish or upgrade call made for another session than the one the state
\* holds when it arrives (it was issued before a reset) is applied like any
\* other reply: a successful message reply writes the round counter, the
\* prediction, the finish flag and an assistant message, a successful finish
\* reply writes isFinished and the result, a successful upgrade reply writes
\* the depth and appends the question, a failed message reply records the
\* error, and every reply ends the busy flags it is in charge of.
C23_StaleReplyApplied ==
    [][ \A r \in Outstanding({"message", "finish"} \cup UpgradeKinds) :
          (Settles(r) /\ r.sid # state.sessionId) =>
             CASE r.kind = "message" /\ r.ok ->
                    /\ state'.currentRound = r.resp.current_round
                    /\ state'.currentPrediction = r.resp.current_prediction
                    /\ state'.isFinished = r.resp.is_finished
                    /\ state'.isAtMaxRounds = r.resp.is_at_max_rounds
                    /\ Len(state'.messages) = Len(state.messages) + 1
                    /\ state'.messages[Len(state'.messages)].role = "assistant"
                    /\ ~state'.isLoading /\ ~state'.isTyping
               [] r.kind = "message" /\ ~r.ok ->
                    /\ state'.error # Null
                    /\ state'.lastFailedMessage = r.content
                    /\ state'.retryCount = state.retryCount + 1
                    /\ ~state'.isLoading /\ ~state'.isTyping
               [] r.kind = "finish" /\ r.ok ->
                    /\ state'.isFinished
                    /\ state'.resultData = r.resp.result
                    /\ state'.progress = 100
                    /\ ~state'.isLoading /\ ~state'.isFinishing
               [] r.kind = "finish" /\ ~r.ok ->
                    ~state'.isLoading /\ ~state'.isFinishing
               [] r.kind \in UpgradeKinds /\ r.ok ->
                    /\ state'.depth = UpgradeTarget(r.kind)
                    /\ ~state'.isFinished
                    /\ state'.resultData = NoResult
                    /\ Len(state'.messages) = Len(state.messages) + 1
                    /\ ~state'.isLoading /\ ~state'.isTyping
               [] OTHER -> ~state'.isLoading /\ ~state'.isTyping ]_vars

\* session 1 was restored and a message sent in it; after a reset session 2
\* was started, and the reply of session 1 then wrote the round counter, the
\* prediction and a message of session 2, which the service holds at round 0
C23_Witness ==
    /\ state.sessionId = 2
    /\ storage = 2
    /\ server[2].round = 0
    /\ server[1].round = 5
    /\ state.currentRound = 5
    /\ state.currentPrediction # "Unknown"
    /\ Len(state.messages) = 2
    /\ state.messages[1] = greetingMessage
    /\ state.messages[2].role = "assistant"


\* the order of the tiers
DepthRank(depth) ==
    CASE depth = "shallow" -> 1 [] depth = "standard" -> 2 [] depth = "deep" -> 3
      [] OTHER -> 0

\* C24: depth only deepens, and only by upgrade: while the state stays in one
\* session, depth changes only in a step that applies a successful upgrade
\* reply, and every successful upgrade reply moves depth to a strictly deeper
\* tier.
C24_DepthOnlyDeepens ==
    [][ /\ ( /\ state.sessionId # NoSession
             /\ state'.sessionId = state.sessionId
             /\ state'.depth # state.depth )
           => \E r \in Outstanding(UpgradeKinds) : r.ok /\ Settles(r)
        /\ \A r \in Outstanding(UpgradeKinds) :
              (r.ok /\ Settles(r) /\ state.sessionId # NoSession)
                 => DepthRank(state'.depth) > DepthRank(state.depth) ]_vars


\* msgs is a prefix of more
IsPrefix(msgs, more) ==
    Len(msgs) <= Len(more) /\ SubSeq(more, 1, Len(msgs)) = msgs

\* C25: messages are append-only and start with the greeting: once a session
\* is started its first message is the assistant greeting, and until reset
\* (or a re-entry of the page) every step leaves the existing messages as
\* they are at their positions and appends at most one: a user message in a
\* step that issues a message call, an assistant message in a step that
\* applies a successful message or upgrade reply, nothing in any other step.
C25_MessagesAppendOnly ==
    [][ /\ state'.isStarted =>
              /\ state'.messages # <<>>
              /\ state'.messages[1].role = "assistant"
              /\ state'.messages[1].content = "greeting"
        /\ (state.sessionId # NoSession /\ ~reset /\ ~Remounts) =>
              /\ IsPrefix(state.messages, state'.messages)
              /\ Len(state'.messages) <= Len(state.messages) + 1
              /\ Len(state'.messages) = Len(state.messages) + 1 =>
                    LET m == state'.messages[Len(state'.messages)]
                    IN \/ m.role = "user" /\ Issues({"message"}, m.content)
                       \/ /\ m.role = "assistant"
                          /\ \E r \in Outstanding({"message"} \cup UpgradeKinds) :
                                r.ok /\ Settles(r) ]_vars


\* a step that begins a session afresh: a successful start reply, a
\* restoration applied, a reset, a re-entry of the page
BeginsAfresh ==
    \/ \E r \in Outstanding({"start"}) : r.ok /\ Settles(r)
    \/ restore.pc # "idle" /\ restore'.pc = "idle" /\ state'.isStarted
    \/ reset
    \/ Remounts

\* C26: retryCount counts consecutive failures: the step that applies a
\* failed message reply adds exactly 1 to retryCount; the step that applies a
\* successful message reply sets it to 0 together with error = null and
\* lastFailedMessage = null; after a step that begins a session afresh
\* (start, restoration, reset) it is 0; and every other step (finish and
\* upgrade and their replies included) leaves it unchanged.
C26_RetryCountCountsFailures ==
    [][ /\ \A r \in Outstanding({"message"}) :
              Settles(r) =>
                 IF r.ok
                 THEN /\ state'.retryCount = 0
                      /\ state'.error = Null
                      /\ state'.lastFailedMessage = Null
                 ELSE state'.retryCount = state.retryCount + 1
        /\ BeginsAfresh => state'.retryCount = 0
        /\ ( /\ ~BeginsAfresh
             /\ ~(\E r \in Outstanding({"message"}) : Settles(r)) )
           => state'.retryCount = state.retryCount ]_vars


\* C27: a result never coexists with an open conversation: in every
\* reachable state resultData is non-null only if isFinished is true.
C27_ResultOnlyIfFinished ==
    state.resultData # NoResult => state.isFinished

\* a result is on screen, fetched by finishSession or by restoration
C27_Witness ==
    /\ state.resultData # NoResult
    /\ state.isFinished
    /\ state.sessionId # NoSession
    /\ View = "result"


\* C28: client and service agree on depth after an upgrade: the step that
\* applies a successful upgrade reply leaves the client with the depth the
\* service answered (new_depth) and with the round limit of that depth,
\* whatever the depth was before the call.
C28_UpgradeDepthAgreement ==
    [][ \A r \in Outstanding(UpgradeKinds) :
          (r.ok /\ Settles(r)) =>
             /\ state'.depth = r.resp.new_depth
             /\ state'.maxRounds = DEPTH_MAX_ROUNDS(r.resp.new_depth) ]_vars


NoRequestOutstanding == net = EmptyBag /\ restore.pc = "idle"

Busy ==
    state.isLoading \/ state.isTyping \/ state.isFinishing \/ state.isRestoring

\* C30: no action leaves the session stuck busy: when every remote call
\* eventually returns, every outstanding call of start, send, finish, upgrade
\* and restoration is eventually settled, whenever a busy flag is set a state
\* follows in which isLoading, isTyping, isFinishing and isRestoring are all
\* false, and in every state without an outstanding request they are false.
C30_NoStuckBusy ==
    /\ [](NoRequestOutstanding => ~Busy)
    /\ (Busy \/ ~NoRequestOutstanding) ~> (NoRequestOutstanding /\ ~Busy)

\* a send of the session has failed and its reply has been applied: with
\* nothing outstanding the busy flags are released
C30_Witness ==
    /\ NoRequestOutstanding
    /\ ~Busy
    /\ state.sessionId # NoSession
    /\ state.retryCount >= 1
    /\ state.error # Null
    /\ calls >= 2

====
